---- MODULE Spec2Model ----
(***************************************************************************)
(* The interactive board controller of chess-gui (src/chess-gui/src/main.rs) *)
(* as a state machine: the AppState fields, the update / draw /             *)
(* mouse_button_up_event handlers of the event loop, and the rules engine   *)
(* (crate eliasfl_chess) the handlers drive.                                *)
(*                                                                         *)
(* Times are whole seconds (the f32 clocks of the source hold 600.0 at the  *)
(* start and are only ever decreased and clamped at 0.0).  Option<T> is a   *)
(* sequence of length 0 (None) or 1 (Some).  A Vec is a sequence.           *)
(***************************************************************************)
EXTENDS Integers, Sequences, FiniteSets, TLC

\* ------------------------------------------------------------------ Option
None ==
    << >>

Some(x) ==
    << x >>

is_some(o) ==
    Len(o) = 1

is_none(o) ==
    Len(o) = 0

unwrap(o) ==
    o[1]

\* --------------------------------------------------------- layout constants
\* const GRID_CELL_SIZE: (i16, i16) = (45, 45)
GRID_CELL_SIZE ==
    45

\* white_time: 10.0 * 60.0
INITIAL_TIME ==
    600

\* ------------------------------------------------- rules engine: positions
Files ==
    1..8

Ranks ==
    1..8

\* struct Position { file: u8, rank: u8 }
Position(f, r) ==
    [file |-> f, rank |-> r]

FileLetters ==
    <<"a", "b", "c", "d", "e", "f", "g", "h">>

RankDigits ==
    <<"1", "2", "3", "4", "5", "6", "7", "8">>

\* Position::to_string: algebraic notation, a two-character string (here the
\* pair of its characters).
to_string(p) ==
    <<FileLetters[p.file], RankDigits[p.rank]>>

\* Position::from_string: Some(position) for a well-formed string, else None.
from_string(s) ==
    IF /\ Len(s) = 2
       /\ \E f \in Files : FileLetters[f] = s[1]
       /\ \E r \in Ranks : RankDigits[r] = s[2]
    THEN Some(Position(CHOOSE f \in Files : FileLetters[f] = s[1],
                       CHOOSE r \in Ranks : RankDigits[r] = s[2]))
    ELSE None

\* ---------------------------------------------------- rules engine: pieces
White ==
    "White"

Black ==
    "Black"

\* impl Not for Color
Not(c) ==
    IF c = White THEN Black ELSE White

\* enum Piece { King(Color), Queen(Color), ... }
Piece(k, c) ==
    [kind |-> k, colour |-> c]

BackRank ==
    <<"Rook", "Knight", "Bishop", "Queen", "King", "Bishop", "Knight", "Rook">>

\* The standard initial placement, as a map from occupied positions to pieces.
NewBoard ==
    [p \in {Position(f, r) : f \in Files, r \in {1, 2, 7, 8}} |->
        CASE p.rank = 1 -> Piece(BackRank[p.file], White)
          [] p.rank = 2 -> Piece("Pawn", White)
          [] p.rank = 7 -> Piece("Pawn", Black)
          [] p.rank = 8 -> Piece(BackRank[p.file], Black)]

\* Index of a side in Game::promotion (0 and 1 in the source).
PromotionIndex(c) ==
    IF c = White THEN 1 ELSE 2

\* ------------------------------------------------- rules engine: movement
RECURSIVE Ray(_, _, _, _, _, _)
\* The squares a sliding piece of colour col reaches from (f, r) in direction
\* (df, dr): empty squares up to and including the first opposing piece.
Ray(b, f, r, df, dr, col) ==
    LET nf == f + df
        nr == r + dr
        q  == Position(nf, nr)
    IN  IF nf \notin Files \/ nr \notin Ranks THEN {}
        ELSE IF q \in DOMAIN b
             THEN (IF b[q].colour = col THEN {} ELSE {q})
             ELSE {q} \cup Ray(b, nf, nr, df, dr, col)

Diagonals ==
    {<<1, 1>>, <<1, -1>>, <<-1, 1>>, <<-1, -1>>}

Straights ==
    {<<1, 0>>, <<-1, 0>>, <<0, 1>>, <<0, -1>>}

KnightJumps ==
    {<<1, 2>>, <<2, 1>>, <<-1, 2>>, <<-2, 1>>, <<1, -2>>, <<2, -1>>, <<-1, -2>>, <<-2, -1>>}

\* Squares at the given offsets from p that are on the board and not held by
\* a piece of colour col.
Steps(b, p, offsets, col) ==
    {q \in {Position(p.file + d[1], p.rank + d[2]) : d \in offsets} :
        /\ q.file \in Files
        /\ q.rank \in Ranks
        /\ (q \in DOMAIN b => b[q].colour # col)}

\* White pawns advance towards rank 8, black pawns towards rank 1.
Forward(col) ==
    IF col = White THEN 1 ELSE -1

PawnMoves(b, p, col) ==
    LET d    == Forward(col)
        one  == Position(p.file, p.rank + d)
        two  == Position(p.file, p.rank + 2 * d)
        home == IF col = White THEN 2 ELSE 7
        push == IF one.rank \in Ranks /\ one \notin DOMAIN b
                THEN {one} \cup (IF p.rank = home /\ two \notin DOMAIN b THEN {two} ELSE {})
                ELSE {}
        take == {q \in {Position(p.file - 1, p.rank + d), Position(p.file + 1, p.rank + d)} :
                    q \in DOMAIN b /\ b[q].colour # col}
    IN  push \cup take

\* Where the piece on p may go by its movement rule alone (checks ignored).
PseudoMoves(b, p) ==
    LET k   == b[p].kind
        col == b[p].colour
        rays(dirs) == UNION {Ray(b, p.file, p.rank, d[1], d[2], col) : d \in dirs}
    IN  CASE k = "Pawn"   -> PawnMoves(b, p, col)
          [] k = "Knight" -> Steps(b, p, KnightJumps, col)
          [] k = "King"   -> Steps(b, p, Diagonals \cup Straights, col)
          [] k = "Bishop" -> rays(Diagonals)
          [] k = "Rook"   -> rays(Straights)
          [] k = "Queen"  -> rays(Diagonals \cup Straights)

\* The king of colour col is attacked.
InCheck(b, col) ==
    \E q \in DOMAIN b :
        /\ b[q].colour # col
        /\ \E t \in PseudoMoves(b, q) : t \in DOMAIN b /\ b[t] = Piece("King", col)

\* The board after the piece on from goes to to; a pawn reaching the last
\* rank becomes the piece promotion holds for its side.
MovePiece(b, from, to, promotion) ==
    LET pc     == b[from]
        last   == IF pc.colour = White THEN 8 ELSE 1
        placed == IF pc.kind = "Pawn" /\ to.rank = last
                  THEN promotion[PromotionIndex(pc.colour)]
                  ELSE pc
    IN  [q \in (DOMAIN b \ {from}) \cup {to} |-> IF q = to THEN placed ELSE b[q]]

\* The legal destinations of the piece on p.
LegalMoves(b, p, promotion) ==
    {t \in PseudoMoves(b, p) : ~InCheck(MovePiece(b, p, t, promotion), b[p].colour)}

\* enum GameState, for the side col to move on board b.
StateOf(b, col, promotion) ==
    LET canMove == \E p \in DOMAIN b : b[p].colour = col /\ LegalMoves(b, p, promotion) # {}
    IN  IF InCheck(b, col)
        THEN (IF canMove THEN "Check" ELSE "CheckMate")
        ELSE (IF canMove THEN "InProgress" ELSE "Stalemate")

\* A set of positions as a Vec, in board order.
RECURSIVE ToVec(_)
ToVec(S) ==
    IF S = {} THEN << >>
    ELSE LET m == CHOOSE p \in S : \A q \in S : p.rank * 8 + p.file <= q.rank * 8 + q.file
         IN  <<m>> \o ToVec(S \ {m})

Elements(v) ==
    {v[i] : i \in 1..Len(v)}

\* Game::new(): the public fields board, active_color and promotion, and the
\* game state the engine works out when a move is made.
NewGame ==
    [board        |-> NewBoard,
     active_color |-> White,
     promotion    |-> <<Piece("Queen", White), Piece("Queen", Black)>>,
     state        |-> "InProgress"]

\* Game::get_possible_moves(position: String) -> Option<Vec<String>>
\* None when the square holds no piece or the piece has no legal move.
get_possible_moves(game, s) ==
    LET p == from_string(s)
        dests == IF is_some(p) /\ unwrap(p) \in DOMAIN game.board
                 THEN LegalMoves(game.board, unwrap(p), game.promotion)
                 ELSE {}
        v == ToVec(dests)
    IN  IF dests = {} THEN None
        ELSE Some([i \in 1..Len(v) |-> to_string(v[i])])

\* Game::make_move(from: String, to: String): the Result of the request
\* (ok) and the game after it.  The engine rejects a move that is not legal
\* for the side to move; accept = FALSE stands for an engine that rejects
\* the request whatever the position.
make_move(game, from, to, accept) ==
    LET f == from_string(from)
        t == from_string(to)
        legal == /\ accept
                 /\ is_some(f) /\ is_some(t)
                 /\ unwrap(f) \in DOMAIN game.board
                 /\ game.board[unwrap(f)].colour = game.active_color
                 /\ unwrap(t) \in LegalMoves(game.board, unwrap(f), game.promotion)
        nb == MovePiece(game.board, unwrap(f), unwrap(t), game.promotion)
    IN  IF legal
        THEN [ok   |-> TRUE,
              game |-> [game EXCEPT !.board = nb,
                                    !.active_color = Not(game.active_color),
                                    !.state = StateOf(nb, Not(game.active_color), game.promotion)]]
        ELSE [ok |-> FALSE, game |-> game]

\* Game::get_game_state()
get_game_state(game) ==
    game.state

\* ------------------------------------------------------------ controller
\* struct AppState (sprites are loaded once and never change), the last
\* callback the event loop ran with what it did (ev), and whether the process
\* has panicked.
VARIABLES game, selected_tile, highlighted_tiles, white_time, black_time, ev, panicked

vars ==
    <<game, selected_tile, highlighted_tiles, white_time, black_time, ev, panicked>>

\* The fields of AppState as one value.
AppState ==
    [game              |-> game,
     selected_tile     |-> selected_tile,
     highlighted_tiles |-> highlighted_tiles,
     white_time        |-> white_time,
     black_time        |-> black_time]

\* AppState::new
new ==
    [game              |-> NewGame,
     selected_tile     |-> None,
     highlighted_tiles |-> << >>,
     white_time        |-> INITIAL_TIME,
     black_time        |-> INITIAL_TIME]

\* f32 as i32: truncation towards zero
as_i32(q, d) ==
    IF q >= 0 THEN q \div d ELSE -((-q) \div d)

\* i32 as u8: the low eight bits
as_u8(n) ==
    n % 256

\* f32::max(0.0)
max0(t) ==
    IF t < 0 THEN 0 ELSE t

get_colour_from_piece(piece) ==
    IF piece.colour = White THEN White ELSE Black

\* An update whose clamp stops the clock one second short of zero.
update_state_never_expires(state, dt) ==
    IF state.white_time > 0 /\ state.black_time > 0
    THEN IF state.game.active_color = White
         THEN [state EXCEPT !.white_time =
                   IF state.white_time - dt < 1 THEN 1 ELSE state.white_time - dt]
         ELSE [state EXCEPT !.black_time =
                   IF state.black_time - dt < 1 THEN 1 ELSE state.black_time - dt]
    ELSE state

\* An update without the "Prevent negative time" clamp.
update_state_unclamped(state, dt) ==
    IF state.white_time > 0 /\ state.black_time > 0
    THEN IF state.game.active_color = White
         THEN [state EXCEPT !.white_time = state.white_time - dt]
         ELSE [state EXCEPT !.black_time = state.black_time - dt]
    ELSE state

update_state_both_clocks(state, dt) ==
    IF state.white_time > 0 /\ state.black_time > 0
    THEN [state EXCEPT !.white_time = max0(state.white_time - dt),
                       !.black_time = max0(state.black_time - dt)]
    ELSE state

\* fn update, with dt = timer::delta(ctx).as_secs_f32()
update_state(state, dt) ==
    IF state.white_time > 0 /\ state.black_time > 0
    THEN LET w == IF state.game.active_color = White THEN state.white_time - dt
                  ELSE state.white_time
             b == IF state.game.active_color = Black THEN state.black_time - dt
                  ELSE state.black_time
         IN  [state EXCEPT !.white_time = max0(w), !.black_time = max0(b)]
    ELSE state

\* What a handler leaves behind: the AppState, the make_move requests it sent
\* to the engine, and whether it panicked.
Outcome(state, calls, panic) ==
    [state |-> state, calls |-> calls, panic |-> panic]

\* A deselect that empties the highlights and keeps the selected square.
deselect_highlights_only(state) ==
    [state EXCEPT !.highlighted_tiles = << >>]

\* move_to_tile, "Deselect tile"
deselect_tile_only(state) ==
    [state EXCEPT !.selected_tile = None]

deselect(state) ==
    [state EXCEPT !.selected_tile = None, !.highlighted_tiles = << >>]

\* move_to_tile, the body of `if state.highlighted_tiles.contains(position)`:
\* make_move(selected, position).unwrap(), then deselect.  Both unwraps
\* panic on None / Err, before anything is deselected.
submit_move(state, position, accept) ==
    IF is_none(state.selected_tile)
    THEN Outcome(state, << >>, TRUE)
    ELSE LET from == to_string(unwrap(state.selected_tile))
             to   == to_string(position)
             r    == make_move(state.game, from, to, accept)
             call == [from |-> from, to |-> to, ok |-> r.ok]
         IN  IF r.ok
             THEN Outcome(deselect([state EXCEPT !.game = r.game]), <<call>>, FALSE)
             ELSE Outcome([state EXCEPT !.game = r.game], <<call>>, TRUE)

\* A time check that also drops the selection.
move_to_tile_time_over_deselects(state, position, accept) ==
    IF state.white_time = 0 \/ state.black_time = 0
    THEN Outcome(deselect(state), << >>, FALSE)
    ELSE IF position \in Elements(state.highlighted_tiles)
         THEN submit_move(state, position, accept)
         ELSE Outcome(state, << >>, FALSE)

move_to_tile_untimed(state, position, accept) ==
    IF position \in Elements(state.highlighted_tiles)
    THEN submit_move(state, position, accept)
    ELSE Outcome(state, << >>, FALSE)

move_to_tile_deselects(state, position, accept) ==
    IF state.white_time = 0 \/ state.black_time = 0
    THEN Outcome(state, << >>, FALSE)
    ELSE IF position \in Elements(state.highlighted_tiles)
         THEN submit_move(state, position, accept)
         ELSE Outcome(deselect(state), << >>, FALSE)

\* fn move_to_tile
move_to_tile(state, position, accept) ==
    IF state.white_time = 0 \/ state.black_time = 0
    THEN Outcome(state, << >>, FALSE)
    ELSE IF position \in Elements(state.highlighted_tiles)
         THEN submit_move(state, position, accept)
         ELSE Outcome(state, << >>, FALSE)

select_piece_keeps_highlights(state, position) ==
    LET moves == get_possible_moves(state.game, to_string(position))
    IN  IF is_none(moves)
        THEN Outcome([state EXCEPT !.selected_tile = Some(position)], << >>, FALSE)
        ELSE Outcome([state EXCEPT !.selected_tile = Some(position),
                                   !.highlighted_tiles =
                                       [i \in 1..Len(unwrap(moves)) |->
                                           unwrap(from_string(unwrap(moves)[i]))]],
                     << >>, FALSE)

\* mouse_button_up_event, "Select piece to move"
select_piece(state, position) ==
    LET moves == get_possible_moves(state.game, to_string(position))
    IN  IF is_none(moves)
        THEN Outcome([state EXCEPT !.selected_tile = Some(position),
                                   !.highlighted_tiles = << >>], << >>, FALSE)
        ELSE LET parsed == [i \in 1..Len(unwrap(moves)) |-> from_string(unwrap(moves)[i])]
             IN  IF \E i \in 1..Len(parsed) : is_none(parsed[i])
                 THEN Outcome([state EXCEPT !.selected_tile = Some(position)], << >>, TRUE)
                 ELSE Outcome([state EXCEPT !.selected_tile = Some(position),
                                            !.highlighted_tiles =
                                                [i \in 1..Len(parsed) |-> unwrap(parsed[i])]],
                              << >>, FALSE)

reset_keeps_clocks(state) ==
    [state EXCEPT !.game = NewGame,
                  !.selected_tile = None,
                  !.highlighted_tiles = << >>]

reset_keeps_highlights(state) ==
    [state EXCEPT !.game = NewGame,
                  !.selected_tile = None,
                  !.white_time = INITIAL_TIME,
                  !.black_time = INITIAL_TIME]

\* mouse_button_up_event, "Click reset button"
reset(state) ==
    [state EXCEPT !.game = NewGame,
                  !.selected_tile = None,
                  !.highlighted_tiles = << >>,
                  !.white_time = INITIAL_TIME,
                  !.black_time = INITIAL_TIME]

select_promotion_both_sides(state, x_tile) ==
    LET kind == CASE x_tile = 8  -> Some("Queen")
                  [] x_tile = 9  -> Some("Knight")
                  [] x_tile = 10 -> Some("Rook")
                  [] x_tile = 11 -> Some("Bishop")
                  [] OTHER       -> None
    IN  IF is_some(kind)
        THEN [state EXCEPT !.game.promotion =
                               <<Piece(unwrap(kind), White), Piece(unwrap(kind), Black)>>]
        ELSE state

select_promotion_rook_knight(state, x_tile) ==
    LET c == state.game.active_color
        selected_piece ==
            CASE x_tile = 8  -> Some(Piece("Queen", c))
              [] x_tile = 9  -> Some(Piece("Rook", c))
              [] x_tile = 10 -> Some(Piece("Knight", c))
              [] x_tile = 11 -> Some(Piece("Bishop", c))
              [] OTHER       -> None
    IN  IF is_some(selected_piece)
        THEN [state EXCEPT !.game.promotion[PromotionIndex(c)] = unwrap(selected_piece)]
        ELSE state

\* mouse_button_up_event, "Select promotion"
select_promotion(state, x_tile) ==
    LET c == state.game.active_color
        selected_piece ==
            CASE x_tile = 8  -> Some(Piece("Queen", c))
              [] x_tile = 9  -> Some(Piece("Knight", c))
              [] x_tile = 10 -> Some(Piece("Rook", c))
              [] x_tile = 11 -> Some(Piece("Bishop", c))
              [] OTHER       -> None
    IN  IF is_some(selected_piece)
        THEN [state EXCEPT !.game.promotion[PromotionIndex(c)] = unwrap(selected_piece)]
        ELSE state

unselect_tile_only(state) ==
    [state EXCEPT !.selected_tile = None]

\* mouse_button_up_event, "Unselect piece"
unselect(state) ==
    [state EXCEPT !.selected_tile = None, !.highlighted_tiles = << >>]

clicked_position_zero_based(x_tile, y_tile) ==
    Position(as_u8(x_tile), as_u8(y_tile))

\* The board position a left click inside the board addresses.
clicked_position(x_tile, y_tile) ==
    Position(as_u8(x_tile + 1), as_u8(y_tile + 1))

mouse_button_up_reset_first(state, button, x, y, accept) ==
    LET x_tile   == as_i32(x, GRID_CELL_SIZE)
        y_tile   == as_i32(y, GRID_CELL_SIZE)
        position == clicked_position(x_tile, y_tile)
    IN  IF button = "Left"
        THEN IF x_tile < 10 /\ y_tile < 1
             THEN Outcome(reset(state), << >>, FALSE)
             ELSE IF x_tile < 8 /\ y_tile < 8
                  THEN IF position \in DOMAIN state.game.board
                       THEN IF get_colour_from_piece(state.game.board[position])
                                 = state.game.active_color
                            THEN select_piece(state, position)
                            ELSE move_to_tile(state, position, accept)
                       ELSE move_to_tile(state, position, accept)
                  ELSE IF y_tile = 3
                       THEN Outcome(select_promotion(state, x_tile), << >>, FALSE)
                       ELSE Outcome(state, << >>, FALSE)
        ELSE IF button = "Right"
             THEN Outcome(unselect(state), << >>, FALSE)
             ELSE Outcome(state, << >>, FALSE)

\* fn mouse_button_up_event(button, x, y)
mouse_button_up(state, button, x, y, accept) ==
    LET x_tile   == as_i32(x, GRID_CELL_SIZE)
        y_tile   == as_i32(y, GRID_CELL_SIZE)
        position == clicked_position(x_tile, y_tile)
    IN  IF button = "Left"
        THEN IF x_tile < 8 /\ y_tile < 8
             THEN IF position \in DOMAIN state.game.board
                  THEN IF get_colour_from_piece(state.game.board[position])
                            = state.game.active_color
                       THEN select_piece(state, position)
                       ELSE move_to_tile(state, position, accept)
                  ELSE move_to_tile(state, position, accept)
             ELSE IF x_tile < 10 /\ y_tile < 1
                  THEN Outcome(reset(state), << >>, FALSE)
                  ELSE IF y_tile = 3
                       THEN Outcome(select_promotion(state, x_tile), << >>, FALSE)
                       ELSE Outcome(state, << >>, FALSE)
        ELSE IF button = "Right"
             THEN Outcome(unselect(state), << >>, FALSE)
             ELSE Outcome(state, << >>, FALSE)

\* fn parse_time, for a whole number of seconds: minutes, seconds and the
\* sixtieths of the fractional second.
parse_time(time) ==
    LET minutes == time \div 60
        seconds == time - minutes * 60
    IN  [minutes |-> minutes, seconds |-> seconds, milliseconds |-> 0]

\* draw, "Draw win text": the side named in "{:?} has won!"
win_text(state) ==
    state.game.active_color

time_over_text_active(state) ==
    state.game.active_color

\* draw, "Draw time over text": the side named in
\* "{:?} has won as the time ran out!"
time_over_text(state) ==
    Not(state.game.active_color)

\* fn draw: the texts and tile colours of one frame.
frame(state) ==
    [turn_text      |-> state.game.active_color,
     win_text       |-> IF get_game_state(state.game) = "CheckMate"
                        THEN Some(win_text(state)) ELSE None,
     time_text      |-> parse_time(IF state.game.active_color = White
                                   THEN state.white_time ELSE state.black_time),
     time_over_text |-> IF state.white_time = 0 \/ state.black_time = 0
                        THEN Some(time_over_text(state)) ELSE None,
     selected       |-> state.selected_tile,
     movable        |-> Elements(state.highlighted_tiles) \ Elements(state.selected_tile),
     promotion      |-> state.game.promotion[PromotionIndex(state.game.active_color)].kind]

\* ---------------------------------------------------------------- inputs
\* The pixel at the centre of tile (x_tile, y_tile).
Centre(x_tile, y_tile) ==
    <<GRID_CELL_SIZE * x_tile + GRID_CELL_SIZE \div 2,
      GRID_CELL_SIZE * y_tile + GRID_CELL_SIZE \div 2>>

\* Tiles the pointer is released on: a1 f2 f3 g2 g4 e7 e5 d8 h4 on the
\* board, the reset button, the knight promotion slot and a tile of the side
\* panel that holds nothing.
ClickTiles ==
    {<<0, 0>>, <<5, 1>>, <<5, 2>>, <<6, 1>>, <<6, 3>>, <<4, 6>>, <<4, 4>>, <<3, 7>>, <<7, 3>>,
     <<8, 0>>, <<9, 3>>, <<12, 5>>}

Pixels ==
    {Centre(t[1], t[2]) : t \in ClickTiles}

\* The button and pixel of a click: every pixel with the primary and the
\* secondary button, and one click of a button the handler has no branch for.
Clicks ==
    ({"Left", "Right"} \X Pixels) \cup {<<"Middle", Centre(5, 1)>>}

\* Frame times, in seconds.
Deltas ==
    {0, 400}

\* ---------------------------------------------------------------- actions
Init ==
    /\ game = new.game
    /\ selected_tile = new.selected_tile
    /\ highlighted_tiles = new.highlighted_tiles
    /\ white_time = new.white_time
    /\ black_time = new.black_time
    /\ ev = [op |-> "new"]
    /\ panicked = FALSE

Store(state) ==
    /\ game' = state.game
    /\ selected_tile' = state.selected_tile
    /\ highlighted_tiles' = state.highlighted_tiles
    /\ white_time' = state.white_time
    /\ black_time' = state.black_time

update(dt) ==
    /\ ~panicked
    /\ Store(update_state(AppState, dt))
    /\ ev' = [op |-> "update", dt |-> dt, before |-> <<white_time, black_time>>]
    /\ UNCHANGED panicked

\* A draw that forgets the selection once it has painted it.
draw_state_clears_selection(state) ==
    [state EXCEPT !.selected_tile = None]

\* fn draw, draw_promotion_icons, draw_promotion_icon: the fields of self
\* after a frame. The three functions read self.selected_tile,
\* self.highlighted_tiles, self.game, self.white_time, self.black_time and
\* assign none of them.
draw_state(state) ==
    state

draw ==
    /\ ~panicked
    /\ Store(draw_state(AppState))
    /\ ev' = [op |-> "draw", frame |-> frame(AppState)]
    /\ UNCHANGED panicked

mouse_button_up_event(button, x, y, accept) ==
    /\ ~panicked
    /\ \E out \in {mouse_button_up(AppState, button, x, y, accept)} :
           /\ Store(out.state)
           /\ panicked' = out.panic
           /\ ev' = [op |-> "mouse_button_up_event", button |-> button, x |-> x, y |-> y,
                     calls |-> out.calls]

\* The event loop with an engine that accepts every legal move.
Next ==
    \/ \E dt \in Deltas : update(dt)
    \/ draw
    \/ \E c \in Clicks : mouse_button_up_event(c[1], c[2][1], c[2][2], TRUE)

Spec ==
    Init /\ [][Next]_vars

\* The event loop with an engine that may reject a move it is sent.
NextRejecting ==
    \/ \E dt \in Deltas : update(dt)
    \/ draw
    \/ \E c \in Clicks, accept \in BOOLEAN :
           mouse_button_up_event(c[1], c[2][1], c[2][2], accept)

SpecRejecting ==
    Init /\ [][NextRejecting]_vars

\* Tiles of a game that promotes a pawn: h2 h4 h5 h6 g7 h8 for White's
\* h-pawn, b8 c6 for a black knight, and the four promotion slots.
PromotionTiles ==
    {<<7, 1>>, <<7, 3>>, <<7, 4>>, <<7, 5>>, <<6, 6>>, <<7, 7>>, <<1, 7>>, <<2, 5>>,
     <<8, 3>>, <<9, 3>>, <<10, 3>>, <<11, 3>>}

PromotionClicks ==
    ({"Left"} \X {Centre(t[1], t[2]) : t \in PromotionTiles}) \cup {<<"Right", Centre(7, 1)>>}

\* Frame times of the promoting game: the clocks do not run down.
PromotionDeltas ==
    {0}

\* The event loop on the tiles of a promoting game.
NextPromotion ==
    \/ \E dt \in PromotionDeltas : update(dt)
    \/ draw
    \/ \E c \in PromotionClicks : mouse_button_up_event(c[1], c[2][1], c[2][2], TRUE)

SpecPromotion ==
    Init /\ [][NextPromotion]_vars

\* mouse_button_up_event, the branch a left click at pixel (x, y) takes: the
\* board with the position it addresses, the reset button, a promotion slot
\* with its index, or none.
region(x, y) ==
    LET x_tile == as_i32(x, GRID_CELL_SIZE)
        y_tile == as_i32(y, GRID_CELL_SIZE)
    IN  IF x_tile < 8 /\ y_tile < 8
        THEN [kind |-> "Board", position |-> clicked_position(x_tile, y_tile)]
        ELSE IF x_tile < 10 /\ y_tile < 1
             THEN [kind |-> "ResetButton"]
             ELSE IF y_tile = 3 /\ x_tile \in 8..11
                  THEN [kind |-> "PromotionSlot", index |-> x_tile - 8]
                  ELSE [kind |-> "None"]

\* The pixel-to-region computation of the handler on its own, applied to the
\* pixel (x, y).
classify(x, y) ==
    /\ ~panicked
    /\ ev' = [op |-> "classify", x |-> x, y |-> y, region |-> region(x, y)]
    /\ UNCHANGED <<game, selected_tile, highlighted_tiles, white_time, black_time, panicked>>

\* The first, the middle and the last pixel of every tile column and row of
\* the board.
ViewportCoordinates ==
    UNION {{GRID_CELL_SIZE * t, GRID_CELL_SIZE * t + GRID_CELL_SIZE \div 2,
            GRID_CELL_SIZE * t + GRID_CELL_SIZE - 1} : t \in 0..7}

NextViewport ==
    \E x \in ViewportCoordinates, y \in ViewportCoordinates : classify(x, y)

SpecViewport ==
    Init /\ [][NextViewport]_vars

\* Pixels outside the board, the reset button and the promotion slots: left
\* of the window beside a2, further left, above the window over h1 and over
\* the reset button, below the board, and right of the window beside the
\* promotion slots.
OutsidePixels ==
    {<<-10, 67>>, <<-50, 67>>, <<337, -10>>, <<380, -100>>, <<157, 400>>, <<900, 157>>}

OutsideClicks ==
    Clicks \cup ({"Left"} \X OutsidePixels)

\* The event loop with clicks released outside the window as well.
NextOutside ==
    \/ \E dt \in Deltas : update(dt)
    \/ draw
    \/ \E c \in OutsideClicks : mouse_button_up_event(c[1], c[2][1], c[2][2], TRUE)

SpecOutside ==
    Init /\ [][NextOutside]_vars

\* The clicks of Clicks that do not land on the reset button.
NoResetClicks ==
    {c \in Clicks : region(c[2][1], c[2][2]).kind # "ResetButton"}

\* A frame that took time.
tick ==
    \E dt \in Deltas \ {0} : update(dt)

\* The event loop when the reset button is never clicked.
NextTimeout ==
    \/ \E dt \in Deltas : update(dt)
    \/ draw
    \/ \E c \in NoResetClicks : mouse_button_up_event(c[1], c[2][1], c[2][2], TRUE)

\* event::run calls update once per frame for as long as the window lives:
\* frames that take time keep occurring.
SpecTimeout ==
    Init /\ [][NextTimeout]_vars /\ WF_vars(tick)

\* ----------------------------------------------------------- properties
\* The engine's legal-destination set for the piece on p (empty when p holds
\* no piece).
LegalDestinations(g, p) ==
    IF p \in DOMAIN g.board THEN LegalMoves(g.board, p, g.promotion) ELSE {}

Highlighted ==
    Elements(highlighted_tiles)

\* The last callback was a click of the given button.
Clicked(button) ==
    ev.op = "mouse_button_up_event" /\ ev.button = button

\* The tile column and row of the last click.
XTile ==
    as_i32(ev.x, GRID_CELL_SIZE)

YTile ==
    as_i32(ev.y, GRID_CELL_SIZE)

\* The last callback was a left click inside the board, and the position it
\* addressed.
BoardClicked ==
    Clicked("Left") /\ XTile < 8 /\ YTile < 8

ClickedPosition ==
    clicked_position(XTile, YTile)

ResetClicked ==
    Clicked("Left") /\ ~(XTile < 8 /\ YTile < 8) /\ XTile < 10 /\ YTile < 1

\* p holds a piece of the side to move.
OwnPiece(p) ==
    p \in DOMAIN game.board /\ game.board[p].colour = game.active_color

TimeOver ==
    white_time = 0 \/ black_time = 0

\* C1: in every reachable state the highlighted set is the engine's current
\* legal-destination set for the selected square, and is empty when no square
\* is selected.
C1_HighlightsNeverStale ==
    IF is_some(selected_tile)
    THEN Highlighted = LegalDestinations(game, unwrap(selected_tile))
    ELSE highlighted_tiles = << >>

\* A piece of Black is selected, after a move, with destinations offered.
C1_Witness ==
    /\ game.active_color = Black
    /\ is_some(selected_tile)
    /\ highlighted_tiles # << >>
    /\ Highlighted = LegalDestinations(game, unwrap(selected_tile))

\* C2: a left click on a board square holding a piece of the side to move
\* leaves selected equal to that square and highlighted exactly equal to the
\* engine's legal destinations for it (empty when the engine reports none).
C2_SelectOwnPiece ==
    [][(BoardClicked' /\ OwnPiece(ClickedPosition'))
        => /\ selected_tile' = Some(ClickedPosition')
           /\ Highlighted' = LegalDestinations(game, ClickedPosition')]_vars

\* A piece with no legal move has just been selected: the engine reported
\* none and nothing is highlighted.
C2_Witness ==
    /\ BoardClicked
    /\ OwnPiece(ClickedPosition)
    /\ selected_tile = Some(ClickedPosition)
    /\ LegalDestinations(game, ClickedPosition) = {}
    /\ highlighted_tiles = << >>

\* C3: while a piece is selected and neither clock is zero, a left click on a
\* highlighted square submits exactly one move selected -> target to the
\* engine and leaves nothing selected and nothing highlighted.
C3_HighlightedClickMoves ==
    [][(/\ is_some(selected_tile)
        /\ ~TimeOver
        /\ BoardClicked'
        /\ ClickedPosition' \in Highlighted)
        => /\ Len(ev'.calls) = 1
           /\ ev'.calls[1].from = to_string(unwrap(selected_tile))
           /\ ev'.calls[1].to = to_string(ClickedPosition')
           /\ selected_tile' = None
           /\ highlighted_tiles' = << >>]_vars

\* A click has just submitted one move, which the engine applied.
C3_Witness ==
    /\ BoardClicked
    /\ Len(ev.calls) = 1
    /\ ev.calls[1].ok
    /\ ev.calls[1].to = to_string(ClickedPosition)
    /\ selected_tile = None
    /\ highlighted_tiles = << >>

\* C4: a left click on a board square that is not highlighted and does not
\* hold a piece of the side to move changes neither selected nor highlighted
\* and applies no move.
C4_OtherClickIsNoOp ==
    [][(/\ BoardClicked'
        /\ ClickedPosition' \notin Highlighted
        /\ ~OwnPiece(ClickedPosition'))
        => /\ selected_tile' = selected_tile
           /\ highlighted_tiles' = highlighted_tiles
           /\ ev'.calls = << >>
           /\ game' = game]_vars

\* An opponent's piece that is not highlighted was clicked while a piece was
\* selected: no move was sent and the selection stands.
C4_Witness ==
    /\ BoardClicked
    /\ ClickedPosition \in DOMAIN game.board
    /\ ~OwnPiece(ClickedPosition)
    /\ ClickedPosition \notin Highlighted
    /\ ev.calls = << >>
    /\ is_some(selected_tile)
    /\ highlighted_tiles # << >>

\* C5: a right click at any pixel leaves nothing selected and nothing
\* highlighted, and changes nothing else.
C5_RightClickUnselects ==
    [][Clicked("Right")'
        => /\ selected_tile' = None
           /\ highlighted_tiles' = << >>
           /\ game' = game
           /\ white_time' = white_time
           /\ black_time' = black_time
           /\ ev'.calls = << >>]_vars

\* A right click has acted in a game in which a move was made and a
\* promotion preference changed.
C5_Witness ==
    /\ Clicked("Right")
    /\ selected_tile = None
    /\ highlighted_tiles = << >>
    /\ game.board # NewBoard
    /\ game.promotion # NewGame.promotion

\* The last click sent the engine a move that it rejected.
MoveRejected ==
    /\ ev.op = "mouse_button_up_event"
    /\ Len(ev.calls) = 1
    /\ ~ev.calls[1].ok

\* C6: if the engine rejects a move submitted for a highlighted destination
\* the controller does not crash: the move is discarded (board and side to
\* move unchanged) and nothing is left selected or highlighted.
C6_RejectionIsAbsorbed ==
    [][MoveRejected'
        => /\ ~panicked'
           /\ game' = game
           /\ selected_tile' = None
           /\ highlighted_tiles' = << >>]_vars

\* C7: once a clock is zero no click applies a move: until a reset, no move
\* is sent to the engine and the board and the side to move do not change.
C7_NoMoveAfterTimeOver ==
    [][(TimeOver /\ ~ResetClicked')
        => /\ game'.board = game.board
           /\ game'.active_color = game.active_color
           /\ (ev'.op = "mouse_button_up_event" => ev'.calls = << >>)]_vars

\* A highlighted destination of the selected piece was clicked with a clock
\* at zero, and no move was sent.
C7_Witness ==
    /\ TimeOver
    /\ BoardClicked
    /\ is_some(selected_tile)
    /\ ClickedPosition \in Highlighted
    /\ ev.calls = << >>

\* C8: when the game state is CheckMate, the side displayed as the winner is
\* the side other than the side to move.
C8_CheckmateWinner ==
    (ev.op = "draw" /\ get_game_state(game) = "CheckMate")
        => ev.frame.win_text = Some(Not(game.active_color))

TimeOf(c) ==
    IF c = White THEN white_time ELSE black_time

\* C9: whenever a clock is zero, the side displayed as the winner by timeout
\* is the side whose clock is not zero, whatever the game state.
C9_TimeoutWinner ==
    (ev.op = "draw" /\ TimeOver)
        => \E c \in {White, Black} :
               /\ ev.frame.time_over_text = Some(c)
               /\ TimeOf(c) > 0
               /\ TimeOf(Not(c)) = 0

\* Black's clock ran out after moves were made, and the frame names White.
C9_Witness ==
    /\ ev.op = "draw"
    /\ black_time = 0
    /\ white_time > 0
    /\ ev.frame.time_over_text = Some(White)

\* C10: a tick with a non-negative delta taken while both clocks are positive
\* subtracts the delta from the clock of the side to move only, floored at
\* zero, and leaves the other clock unchanged.
C10_TickActiveClockOnly ==
    [][(ev'.op = "update" /\ ev'.dt >= 0 /\ white_time > 0 /\ black_time > 0)
        => /\ game.active_color = White
              => /\ white_time' = max0(white_time - ev'.dt)
                 /\ black_time' = black_time
           /\ game.active_color = Black
              => /\ black_time' = max0(black_time - ev'.dt)
                 /\ white_time' = white_time
           /\ game' = game]_vars

\* Black's clock has just been floored at zero by a tick that left White's
\* clock, already run down to 200, alone.
C10_Witness ==
    /\ ev.op = "update"
    /\ ev.dt > 0
    /\ game.active_color = Black
    /\ black_time = 0
    /\ white_time = 200

\* C11: once a clock has reached zero every later tick leaves both clocks
\* unchanged; the clocks stay frozen through ticks and clicks until a reset.
C11_ClocksFrozenAfterTimeOver ==
    [][(TimeOver /\ ~ResetClicked')
        => /\ white_time' = white_time
           /\ black_time' = black_time]_vars

\* A tick of 400 seconds was taken with White's clock already at zero, and
\* left both clocks as they were.
C11_Witness ==
    /\ ev.op = "update"
    /\ ev.dt > 0
    /\ ev.before = <<0, 200>>
    /\ white_time = 0
    /\ black_time = 200

\* C12: a reset click from any reachable state yields the initial state: a
\* fresh game with White to move and the default Queen promotion preference
\* for both sides, both clocks at 600 seconds, nothing selected, nothing
\* highlighted.
C12_ResetRestoresInitialState ==
    [][ResetClicked'
        => /\ game' = NewGame
           /\ game'.active_color = White
           /\ game'.promotion = <<Piece("Queen", White), Piece("Queen", Black)>>
           /\ white_time' = INITIAL_TIME
           /\ black_time' = INITIAL_TIME
           /\ selected_tile' = None
           /\ highlighted_tiles' = << >>
           /\ AppState' = new]_vars

\* A reset click has acted and the state is the initial one.
C12_Witness ==
    /\ ResetClicked
    /\ AppState = new
    /\ ev.calls = << >>

\* draw_promotion_icons: the piece kind drawn in promotion slot 0, 1, 2, 3.
PromotionKinds ==
    <<"Queen", "Knight", "Rook", "Bishop">>

\* draw_promotion_icon: the rectangle of promotion slot i.
slot_rect(i) ==
    [x |-> GRID_CELL_SIZE * (8 + i), y |-> GRID_CELL_SIZE * 3,
     w |-> GRID_CELL_SIZE, h |-> GRID_CELL_SIZE]

InRect(x, y, r) ==
    /\ r.x <= x /\ x < r.x + r.w
    /\ r.y <= y /\ y < r.y + r.h

\* The last callback was a left click inside promotion slot i.
SlotClicked(i) ==
    Clicked("Left") /\ InRect(ev.x, ev.y, slot_rect(i))

\* The promotion preference of side c.
Preference(g, c) ==
    g.promotion[PromotionIndex(c)]

\* C13: a left click on promotion slot 0, 1, 2, 3 sets the promotion
\* preference of the side to move to Queen, Knight, Rook, Bishop; the
\* preference of a side changes in no other way short of a reset, and a
\* promoting move of that side puts a piece of the preferred kind on the
\* board.
C13_PromotionSlotSetsPreference ==
    [][/\ \A i \in 0..3 :
            SlotClicked(i)'
                => Preference(game', game.active_color)
                       = Piece(PromotionKinds[i + 1], game.active_color)
       /\ \A c \in {White, Black} :
            Preference(game', c) # Preference(game, c)
                => \/ ResetClicked'
                   \/ (game.active_color = c /\ \E i \in 0..3 : SlotClicked(i)')
       /\ (/\ BoardClicked'
           /\ Len(ev'.calls) = 1
           /\ ev'.calls[1].ok
           /\ game.board[unwrap(selected_tile)].kind = "Pawn"
           /\ ClickedPosition'.rank = (IF game.active_color = White THEN 8 ELSE 1))
            => game'.board[ClickedPosition'] = Preference(game, game.active_color)]_vars

\* White's pawn has just promoted on h8 to a knight, the kind chosen in
\* slot 1, not the default queen.
C13_Witness ==
    /\ BoardClicked
    /\ Len(ev.calls) = 1
    /\ ev.calls[1].ok
    /\ ClickedPosition = Position(8, 8)
    /\ game.board[Position(8, 8)] = Piece("Knight", White)
    /\ Preference(game, White) = Piece("Knight", White)

\* C14: a promotion-slot click changes nothing but the promotion preference
\* of the side to move: selected, highlighted, the board, the side to move,
\* both clocks and the other side's preference are unchanged and no move is
\* submitted.
C14_PromotionSlotFrame ==
    [][(\E i \in 0..3 : SlotClicked(i)')
        => /\ selected_tile' = selected_tile
           /\ highlighted_tiles' = highlighted_tiles
           /\ game'.board = game.board
           /\ game'.active_color = game.active_color
           /\ game'.state = game.state
           /\ white_time' = white_time
           /\ black_time' = black_time
           /\ Preference(game', Not(game.active_color))
                  = Preference(game, Not(game.active_color))
           /\ ev'.calls = << >>]_vars

\* Black, with a piece selected and destinations highlighted, has just
\* clicked the rook slot.
C14_Witness ==
    /\ SlotClicked(2)
    /\ game.active_color = Black
    /\ is_some(selected_tile)
    /\ highlighted_tiles # << >>
    /\ Preference(game, Black) = Piece("Rook", Black)
    /\ Preference(game, White) = Piece("Knight", White)

\* draw, "Draw tiles": the rectangle drawn for the tile of a position.
tile_rect(position) ==
    [x |-> (position.file - 1) * GRID_CELL_SIZE, y |-> (position.rank - 1) * GRID_CELL_SIZE,
     w |-> GRID_CELL_SIZE, h |-> GRID_CELL_SIZE]

\* The squares of the board, file 1..8 and rank 1..8.
Squares ==
    {Position(f, r) : f \in Files, r \in Ranks}

\* The board viewport: the union of the tiles.
InViewport(x, y) ==
    \E s \in Squares : InRect(x, y, tile_rect(s))

\* C15: the pixel at the centre of a square's tile classifies to that square,
\* and every pixel inside the board viewport classifies to exactly the square
\* whose tile contains it.
C15_ClassifyInvertsTiles ==
    (ev.op = "classify" /\ InViewport(ev.x, ev.y))
        => /\ ev.region.kind = "Board"
           /\ ev.region.position \in Squares
           /\ \A s \in Squares :
                  InRect(ev.x, ev.y, tile_rect(s)) <=> ev.region.position = s
           /\ \A s \in Squares :
                  <<ev.x, ev.y>> = Centre(s.file - 1, s.rank - 1) => ev.region.position = s

\* The last pixel of the last tile, (359, 359), was classified to h8.
C15_Witness ==
    /\ ev.op = "classify"
    /\ ev.x = 8 * GRID_CELL_SIZE - 1
    /\ ev.y = 8 * GRID_CELL_SIZE - 1
    /\ ev.region = [kind |-> "Board", position |-> Position(8, 8)]

\* draw, "Draw reset text": the two tiles right of the board's first row that
\* hold the Reset text.
reset_rect ==
    [x |-> GRID_CELL_SIZE * 8, y |-> 0, w |-> GRID_CELL_SIZE * 2, h |-> GRID_CELL_SIZE]

\* The last callback was a left click outside the board, the reset button
\* and the four promotion slots.
OutsideClicked ==
    /\ Clicked("Left")
    /\ ~InViewport(ev.x, ev.y)
    /\ ~InRect(ev.x, ev.y, reset_rect)
    /\ \A i \in 0..3 : ~InRect(ev.x, ev.y, slot_rect(i))

\* C16: a left click at a pixel outside the board, the reset button and the
\* promotion slots classifies to None and changes no state.
C16_OutsideClickIsNone ==
    [][OutsideClicked'
        => /\ region(ev'.x, ev'.y).kind = "None"
           /\ AppState' = AppState]_vars

\* C17: the draw step mutates no state of the controller: selection,
\* highlights, board, side to move, promotion preferences and both clocks are
\* the same before and after it.
C17_DrawMutatesNothing ==
    [][ev'.op = "draw"
        => /\ selected_tile' = selected_tile
           /\ highlighted_tiles' = highlighted_tiles
           /\ game'.board = game.board
           /\ game'.active_color = game.active_color
           /\ game'.promotion = game.promotion
           /\ white_time' = white_time
           /\ black_time' = black_time]_vars

\* A frame drawn with a square selected, after a move, with a clock run down.
C17_Witness ==
    /\ ev.op = "draw"
    /\ is_some(selected_tile)
    /\ highlighted_tiles # <<>>
    /\ game.board # NewBoard
    /\ white_time < INITIAL_TIME

\* C18 as stated: when either clock has reached zero, a left click on any
\* board square is a no-op: selected and highlighted stay exactly as they
\* were and the board and the side to move are unchanged.
C18_TimeOverClickIsNoOp ==
    [][(TimeOver /\ BoardClicked')
        => /\ selected_tile' = selected_tile
           /\ highlighted_tiles' = highlighted_tiles
           /\ game'.board = game.board
           /\ game'.active_color = game.active_color]_vars

\* C18: when either clock has reached zero, a left click on a board square
\* applies no move: no move is sent to the engine and the board, the side to
\* move and both clocks are unchanged. A click on a square that does not hold
\* a piece of the side to move leaves selected and highlighted exactly as
\* they were; a click on a piece of the side to move still selects it and
\* highlights its legal destinations.
C18_TimeOverClickMovesNothing ==
    [][(TimeOver /\ BoardClicked')
        => /\ ev'.calls = << >>
           /\ game' = game
           /\ white_time' = white_time
           /\ black_time' = black_time
           /\ IF OwnPiece(ClickedPosition')
              THEN /\ selected_tile' = Some(ClickedPosition')
                   /\ Highlighted' = LegalDestinations(game, ClickedPosition')
              ELSE /\ selected_tile' = selected_tile
                   /\ highlighted_tiles' = highlighted_tiles]_vars

\* With White's clock at zero a white piece has been clicked and is selected
\* with its destinations highlighted.
C18_Witness ==
    /\ white_time = 0
    /\ game.active_color = White
    /\ BoardClicked
    /\ OwnPiece(ClickedPosition)
    /\ selected_tile = Some(ClickedPosition)
    /\ highlighted_tiles # << >>

\* C19: in every reachable state at most one clock is zero, a clock that is
\* zero belongs to the side to move while the other side's clock is strictly
\* positive, and both clocks are within 0..600 seconds.
C19_ClockInvariant ==
    /\ ~(white_time = 0 /\ black_time = 0)
    /\ white_time = 0 => (game.active_color = White /\ black_time > 0)
    /\ black_time = 0 => (game.active_color = Black /\ white_time > 0)
    /\ white_time \in 0..INITIAL_TIME
    /\ black_time \in 0..INITIAL_TIME

\* Black's clock ran out on Black's turn, after White had spent time and
\* moved.
C19_Witness ==
    /\ black_time = 0
    /\ game.active_color = Black
    /\ white_time \in 1..(INITIAL_TIME - 1)
    /\ game.board # NewBoard

\* C20: in every reachable state where a square is selected, that square
\* holds a piece of the side to move; and the selection never survives a
\* change of the side to move or of the board: every step that changes
\* either leaves nothing selected.
C20_SelectionBelongsToMover ==
    /\ [](is_some(selected_tile) => OwnPiece(unwrap(selected_tile)))
    /\ [][(game'.board # game.board \/ game'.active_color # game.active_color)
            => selected_tile' = None]_vars

\* A black piece has been selected by a click, after White's move changed
\* the board and the side to move.
C20_Witness ==
    /\ BoardClicked
    /\ selected_tile = Some(ClickedPosition)
    /\ game.active_color = Black
    /\ game.board # NewBoard
    /\ game.board[ClickedPosition].colour = Black

\* C21: if ticks with a positive delta keep occurring and the reset button is
\* never clicked, then whatever moves and other clicks are interleaved,
\* eventually a clock reaches zero and stays there, and from then on no move
\* is applied: no request reaches the engine and the board and the side to
\* move stay as they are.
C21_PlayEndsByTimeout ==
    /\ <>[]TimeOver
    /\ [][TimeOver
            => /\ game'.board = game.board
               /\ game'.active_color = game.active_color
               /\ (ev'.op = "mouse_button_up_event" => ev'.calls = << >>)]_vars

\* The tick that ends play: Black's clock was running and reached zero, moves
\* having been played before.
C21_Witness ==
    /\ ev.op = "update"
    /\ ev.dt > 0
    /\ ev.before[2] > 0
    /\ black_time = 0
    /\ game.board # NewBoard

====
